---- MODULE Spec2Model ----
(***************************************************************************)
(* A state-machine model of spi_Neopixel_Christmas.py: the effect classes  *)
(* (NeopixelTrains, NeopixelStripes, NeopixelRain, NeopixelStars) with     *)
(* their frame buffers and object populations, and the main loop that      *)
(* picks an effect, runs it until its timer has elapsed and it has         *)
(* drained, and picks the next one.                                        *)
(*                                                                         *)
(* Conventions.                                                            *)
(*  - Buffers are functions on 0 .. _len-1, so indices are the source's.   *)
(*  - A train's _pos and _speed are floats that are always multiples of    *)
(*    0.5; the model holds them in half-LED units (pos = 2 * _pos).        *)
(*  - random draws (randint, choice) are inputs, drawn with \E from the    *)
(*    sets named below.                                                    *)
(*  - one instance of each effect class is modelled; they are built with   *)
(*    small leds / overscan / max_trains / width constructor arguments.    *)
(***************************************************************************)
EXTENDS Integers, Sequences, FiniteSets, TLC

VARIABLES
    _expired,     \* instance -> "absent" | "False" | "True"  (self._expired)
    _display,     \* instance -> frame buffer                 (self._display)
    _trains,      \* NeopixelTrains._trains
    _drops,       \* NeopixelRain._drops
    _stars,       \* NeopixelStars._stars
    _offset,      \* NeopixelStripes._offset
    _width,       \* NeopixelStripes._width
    initialised,  \* the instances reinit() has been called on
    sm,           \* the hardware sink: the sequence last handed to sm.put()
    effects,      \* main: the list effects, as a set of instances
    effect,       \* the instance being driven (main: effect)
    pc,           \* position of the driver: pick, check, cycle (main loop);
                  \* render, display, move, wait (inside cycle())
    now,          \* time(), in seconds since the round started
    expire_at,    \* main: expire_at
    last_remain,  \* main: last_remain, {} for None, {r} otherwise
    led_expired,  \* main: the value of the led_expired pin
    calls,        \* set_expired() calls of the main loop in this round (capped)
    subject       \* the object a specification of one class or function
                  \* exercises on its own; "none" in the other specifications

effVars == <<_expired, _display, _trains, _drops, _stars, _offset, _width,
             initialised, sm>>
mainVars == <<now, expire_at, last_remain, led_expired, calls>>
vars == <<_expired, _display, _trains, _drops, _stars, _offset, _width,
          initialised, sm, effects, effect, pc, now, expire_at, last_remain,
          led_expired, calls, subject>>
progVars == <<effVars, effects, effect, pc, mainVars>>

----------------------------------------------------------------------------
(* Bounds of the model: constructor arguments and caps.                    *)

\* the largest _halfwidth of the train whose color_at() is tabulated
MaxHalfwidth == 16
\* leds argument of NeopixelStrip.__init__ (VISIBLE_LEDS in the source)
Leds == 3
\* overscan argument of NeopixelStrip.__init__ (OVERSCAN_LEDS in the source)
Overscan == 1
\* max_trains argument of NeopixelTrains.__init__ (MAX_TRAINS in the source)
MaxTrains == 1
\* width argument of NeopixelStripes.__init__
StripesWidth == 2
\* the counter of set_expired() calls stops here
CallsCap == 2

----------------------------------------------------------------------------
(* Constants of the source.                                                *)

MIN_TIME == 10
MAX_TIME == 20
WARN_TIME == 5
NEW_TRAIN_PROBABILITY_PCT == 80
TRAIN_WIDTH_MIN == 8
TRAIN_WIDTH_MAX == 24
NEW_RAIN_DROP_PCT == 15
RAIN_MAX_DROPS == 8
RAIN_MIN_SIZE == 5
RAIN_MAX_SIZE == 12
STRIPES_WIDTH_MIN == 6
STRIPES_WIDTH_MAX == 16
STAR_MIN_LUMA == 0
STAR_MAX_LUMA == 191
STAR_LUMA_DELTA == 16
STARS_MIN == 10
STARS_MAX == 25
TrainsBrightness == 191
StripesBrightness == 31
RainBrightness == 191
StarsBrightness == 191

----------------------------------------------------------------------------
(* Python arithmetic.                                                      *)

PyMax(a, b) == IF a >= b THEN a ELSE b
PyMin(a, b) == IF a <= b THEN a ELSE b
PyAbs(a) == IF a < 0 THEN 0 - a ELSE a
\* range(a, b)
range(a, b) == a .. (b - 1)

\* int(x), floor(x), ceil(x) of a float x held in half units
IntOfHalf(h) == IF h >= 0 THEN h \div 2 ELSE 0 - ((0 - h) \div 2)
FloorOfHalf(h) == h \div 2
CeilOfHalf(h) == 0 - ((0 - h) \div 2)

\* a | b, bit by bit; each operand is computed once
RECURSIVE BitOr(_, _)
BitOr(a, b) ==
    CHOOSE v \in
        {IF x = 0 THEN y
         ELSE IF y = 0 THEN x
         ELSE (IF x % 2 = 1 \/ y % 2 = 1 THEN 1 ELSE 0)
                  + 2 * BitOr(x \div 2, y \div 2) : x \in {a}, y \in {b}} : TRUE

\* x & 0xff0000, x & 0xff00, x & 0xff
AndFF0000(x) == ((x \div 65536) % 256) * 65536
AndFF00(x) == ((x \div 256) % 256) * 256
AndFF(x) == x % 256

\* (m * luma) // 255 for a masked channel m = c * unit; the product is split
\* so that no intermediate value exceeds 31 bits
MulDiv255(m, unit, luma) ==
    LET p == (m \div unit) * luma
    IN  unit * (p \div 255) + (unit * (p % 255)) \div 255

grb(r, g, b) == BitOr(BitOr(g * 65536, r * 256), b)

color_at_luma(color, luma) ==
    LET scaled(c, l) ==
            BitOr(BitOr(AndFF0000(MulDiv255(AndFF0000(c), 65536, l)),
                        AndFF00(MulDiv255(AndFF00(c), 256, l))),
                  AndFF(MulDiv255(AndFF(c), 1, l)))
    IN  CHOOSE v \in {scaled(c, l) : c \in {color}, l \in {luma}} : TRUE

BLACK == grb(0, 0, 0)
BLUE == grb(0, 0, 255)
WHITE == grb(255, 255, 255)
RED == grb(255, 0, 0)
GREEN == grb(0, 255, 0)
CYAN == grb(0, 255, 255)

----------------------------------------------------------------------------
(* The instances and the draws.                                            *)

AllEffects == {"trains", "stripes", "rain", "stars"}
\* main: effects = trains_effects + stripes_effects + rain_effects
MainEffects == {"trains", "stripes", "rain"}

_brightness(e) ==
    CASE e = "trains" -> TrainsBrightness
      [] e = "stripes" -> StripesBrightness
      [] e = "rain" -> RainBrightness
      [] e = "stars" -> StarsBrightness

\* NeopixelStrip.__init__
_leds == Leds
_min == Overscan
_max == Leds + Overscan
_len == Leds + Overscan * 2
EmptyDisplay == [led \in 0 .. (_len - 1) |-> 0]

\* randint(1, 100): both sides of both thresholds
Rolls == {1, NEW_RAIN_DROP_PCT - 1, NEW_RAIN_DROP_PCT,
          NEW_TRAIN_PROBABILITY_PCT, NEW_TRAIN_PROBABILITY_PCT + 1, 100}
\* randint(TRAIN_WIDTH_MIN, TRAIN_WIDTH_MAX)
TrainWidths == {TRAIN_WIDTH_MIN}
\* choice([0.5, 1, 2]), in half-LEDs per frame
TrainSpeeds == {1, 2, 4}
\* the palette of the trains instance
TrainsColors == {WHITE}
\* randint(5, RAIN_MAX_SIZE)
DropSizes == {RAIN_MIN_SIZE}
\* randint(self._min, self._max)
DropPositions == {_max}
\* the palette of the rain instance
RainColors == {CYAN}
\* self._init_width or randint(STRIPES_WIDTH_MIN, STRIPES_WIDTH_MAX)
StripesWidths ==
    IF StripesWidth # 0 THEN {StripesWidth} ELSE {STRIPES_WIDTH_MIN}
\* NeopixelStars.__init__: self._num_stars = randint(STARS_MIN, STARS_MAX)
_num_stars == STARS_MIN
\* the stars of one reinit(): randint(self._min, self._max), choice(colors), and
\* Star.__init__'s randint(STAR_MIN_LUMA, STAR_MAX_LUMA - 1); the odd stars
\* share one draw and the even stars another
StarPositions == {_min, _max}
StarsColors == {CYAN}
StarLumas == {STAR_MIN_LUMA, STAR_MAX_LUMA - 1}
\* the colours of the stripes instance
StripesColor1 == RED
StripesColor2 == WHITE
\* randint(MIN_TIME, MAX_TIME)
EffectTimes == {MIN_TIME}

----------------------------------------------------------------------------
(* NeopixelStrip: the operations every effect inherits.                    *)

\* NeopixelStrip.clear(color): range(self._min, self._max + 1)
clear(buf, color) ==
    [led \in DOMAIN buf |->
        IF led \in range(_min, _max + 1) THEN color ELSE buf[led]]

\* seq[lo:hi] of Python for 0 <= lo, hi: the indices the slice selects
SliceIndices(n, lo, hi) ==
    LET l == PyMin(lo, n)
        h == PyMin(hi, n)
    IN  [k \in 1 .. PyMax(h - l, 0) |-> l + k - 1]

\* Mutant: the slice taken from the start of the buffer, self._display[0:self._leds]
FlushedFromZero == SliceIndices(_len, 0, _leds)

\* NeopixelStrip.display(): the argument of self._sm.put(..., 8)
FlushedIndices == SliceIndices(_len, _min, _max)
Flushed(buf) == [k \in DOMAIN FlushedIndices |-> buf[FlushedIndices[k]]]

----------------------------------------------------------------------------
(* Train and NeopixelTrains.                                               *)

\* Train.__init__ as NeopixelTrains.move() calls it: pos = -width // 2
Train(rgb, width, speed) ==
    [rgb |-> rgb, halfwidth |-> width \div 2, speed |-> speed,
     pos |-> 2 * ((0 - width) \div 2)]

TrainMove(t) == [t EXCEPT !.pos = @ + t.speed]

\* Train.min() and Train.max(), in half-LEDs
TrainMin(t) == t.pos - 2 * t.halfwidth
TrainMax(t) == t.pos + 2 * t.halfwidth

\* Mutant: a linear falloff (TRAIN_FALLOFF = 1)
IntensityLinear(size, full) ==
    (PyMax(size, 0) * 255) \div full

\* int(((max(hw - distance, 0) / hw) ** TRAIN_FALLOFF) * 255), TRAIN_FALLOFF = 2.
\* The quotient is never an integer for 0 < distance < hw (255 is squarefree),
\* so the float result truncates to the exact floor.
Intensity(size, full) ==
    (PyMax(size, 0) * PyMax(size, 0) * 255) \div (full * full)

\* Train.color_at(p)
color_at(t, p) ==
    LET distance == PyAbs(IntOfHalf(t.pos) - p)
    IN  IF distance > t.halfwidth
        THEN 0
        ELSE color_at_luma(t.rgb, Intensity(t.halfwidth - distance, t.halfwidth))

\* Train.color_at(p): distance, and the intensity it passes to color_at_luma
\* (0 where it returns BLACK without computing one)
ColorAtDistance(t, p) == PyAbs(IntOfHalf(t.pos) - p)
ColorAtIntensity(t, p) ==
    IF ColorAtDistance(t, p) > t.halfwidth
    THEN 0
    ELSE Intensity(t.halfwidth - ColorAtDistance(t, p), t.halfwidth)

\* the leds NeopixelTrains.render() draws a train on
TrainLeds(t) ==
    range(PyMax(FloorOfHalf(TrainMin(t)), 0),
          PyMin(CeilOfHalf(TrainMax(t)), _len - 1))

\* what render() ORs into cell led for train t
TrainCell(t, led) ==
    IF led \in TrainLeds(t)
    THEN color_at_luma(color_at(t, led), TrainsBrightness)
    ELSE 0

\* self._display[led] |= ..., for the trains from the i-th on
RECURSIVE DrawTrains(_, _, _, _)
DrawTrains(cell, trains, led, i) ==
    IF i > Len(trains) THEN cell
    ELSE DrawTrains(BitOr(cell, TrainCell(trains[i], led)), trains, led, i + 1)

\* Mutant: render() draws the trains over what the buffer holds
TrainsRenderedOver(buf, trains) ==
    [led \in DOMAIN buf |-> DrawTrains(buf[led], trains, led, 1)]

\* NeopixelTrains.render(): the buffer it leaves (every cell set to 0, then
\* the trains drawn in list order)
TrainsRendered(buf, trains) ==
    [led \in DOMAIN buf |->
        DrawTrains(IF led \in range(0, _len) THEN 0 ELSE buf[led], trains, led, 1)]

\* Mutant: the spawn guard without the expiry test
TrainsMaySpawnWhenExpired(expired, num_trains) ==
    num_trains < MaxTrains

\* the guard of the spawn in NeopixelTrains.move()
TrainsMaySpawn(expired, num_trains) ==
    expired = "False" /\ num_trains < MaxTrains

\* Mutant: a train stays while its centre is on the strip (pos for min())
TrainStaysByCentre(t) == t.pos <= 2 * _max

\* a train stays while train.min() <= self._max
TrainStays(t) == TrainMin(t) <= 2 * _max

\* NeopixelTrains.move(): the list it leaves, for the draws roll, width, rgb, speed
TrainsMoved(trains, expired, roll, width, rgb, speed) ==
    LET moved == [i \in 1 .. Len(trains) |-> TrainMove(trains[i])]
        kept == SelectSeq(moved, TrainStays)
    IN  IF TrainsMaySpawn(expired, Len(kept)) /\ roll <= NEW_TRAIN_PROBABILITY_PCT
        THEN Append(kept, Train(rgb, width, speed))
        ELSE kept

\* NeopixelTrains.is_finished()
TrainsFinished(trains) == Len(trains) = 0

----------------------------------------------------------------------------
(* NeopixelStripes.                                                        *)

\* NeopixelStripes._next_color(): the colour it returns and the offset it leaves
NextColor(offset, width) ==
    IF offset < width
    THEN color_at_luma(StripesColor1, StripesBrightness)
    ELSE color_at_luma(StripesColor2, StripesBrightness)

\* Mutant: the offset wraps at width instead of width * 2
NextOffsetWrapsAtWidth(offset, width) ==
    IF offset + 1 >= width THEN 0 ELSE offset + 1

\* Mutant: the wrap test is > instead of >=
NextOffsetWrapsLate(offset, width) ==
    IF offset + 1 > width * 2 THEN 0 ELSE offset + 1

NextOffset(offset, width) ==
    IF offset + 1 >= width * 2 THEN 0 ELSE offset + 1

\* the loop of NeopixelStripes.reinit(), from led on
RECURSIVE StripesFill(_, _, _, _)
StripesFill(buf, offset, width, led) ==
    IF led >= _len
    THEN [display |-> buf, offset |-> offset]
    ELSE StripesFill([buf EXCEPT ![led] = NextColor(offset, width)],
                     NextOffset(offset, width), width, led + 1)

\* NeopixelStripes.move(): display[:-1] = display[1:]; display[-1] = next colour
StripesMoved(buf, offset, width) ==
    [display |-> [led \in DOMAIN buf |->
                     IF led < _len - 1 THEN buf[led + 1] ELSE NextColor(offset, width)],
     offset |-> NextOffset(offset, width)]

\* move() called n times in a row: the buffer and the offset they leave
RECURSIVE StripesMovedTimes(_, _, _, _)
StripesMovedTimes(buf, offset, width, n) ==
    IF n = 0
    THEN [display |-> buf, offset |-> offset]
    ELSE LET moved == StripesMoved(buf, offset, width)
         IN  StripesMovedTimes(moved.display, moved.offset, width, n - 1)

----------------------------------------------------------------------------
(* RainDrop and NeopixelRain.                                              *)

RainDrop(pos, color, max_size) ==
    [pos |-> pos, color |-> color, max_size |-> max_size,
     current_size |-> 0, target_size |-> max_size]

\* Mutant: the drop grows to its target size and never shrinks
DropMoveNeverShrinks(d) ==
    IF d.current_size < d.target_size
    THEN IF d.current_size + 1 >= d.target_size
         THEN [d EXCEPT !.current_size = @ + 1, !.target_size = 0]
         ELSE [d EXCEPT !.current_size = @ + 1]
    ELSE d

\* Mutant: the target is set to 0 only once the size exceeds it (> for >=)
DropMoveLateTarget(d) ==
    IF d.current_size < d.target_size
    THEN IF d.current_size + 1 > d.target_size
         THEN [d EXCEPT !.current_size = @ + 1, !.target_size = 0]
         ELSE [d EXCEPT !.current_size = @ + 1]
    ELSE IF d.current_size > 0
         THEN [d EXCEPT !.current_size = @ - 1]
         ELSE d

\* RainDrop.move()
DropMove(d) ==
    IF d.current_size < d.target_size
    THEN IF d.current_size + 1 >= d.target_size
         THEN [d EXCEPT !.current_size = @ + 1, !.target_size = 0]
         ELSE [d EXCEPT !.current_size = @ + 1]
    ELSE IF d.current_size > 0
         THEN [d EXCEPT !.current_size = @ - 1]
         ELSE d

\* RainDrop.finished()
DropFinished(d) == d.current_size = 0 /\ d.target_size = 0
DropStays(d) == ~ DropFinished(d)

\* RainDrop.color_at_offset(offset)
color_at_offset(d, offset) ==
    color_at_luma(d.color, Intensity(d.current_size - offset, d.max_size))

\* the cells NeopixelRain.render() draws drop d on: pos - offset when that is
\* >= self._min and pos + offset when that is <= self._max, for offset in
\* range(0, current_size - 1)
DropLeds(d) ==
    {d.pos - offset : offset \in
        {o \in range(0, d.current_size - 1) : d.pos - o >= _min}}
    \cup
    {d.pos + offset : offset \in
        {o \in range(0, d.current_size - 1) : d.pos + o <= _max}}

\* what render() ORs into cell led for drop d: a cell at distance offset from
\* pos is drawn with color_at_offset(offset)
DropCell(d, led) ==
    IF led \in DropLeds(d)
    THEN color_at_offset(d, PyAbs(d.pos - led))
    ELSE 0

\* self._display[...] |= color, for the drops from the i-th on
RECURSIVE DrawDrops(_, _, _, _)
DrawDrops(cell, drops, led, i) ==
    IF i > Len(drops) THEN cell
    ELSE DrawDrops(BitOr(cell, DropCell(drops[i], led)), drops, led, i + 1)

\* NeopixelRain.render(): the buffer it leaves (every cell set to 0, then the
\* drops drawn in list order)
RainRendered(buf, drops) ==
    [led \in DOMAIN buf |->
        DrawDrops(IF led \in range(0, _len) THEN 0 ELSE buf[led], drops, led, 1)]

\* Mutant: the spawn guard of the rain without the expiry test
RainMaySpawnWhenExpired(expired, num_drops) ==
    num_drops < RAIN_MAX_DROPS

\* Mutant: the cap compared with <= instead of <
RainMaySpawnAtCap(expired, num_drops) ==
    expired = "False" /\ num_drops <= RAIN_MAX_DROPS

\* the guard of the spawn in NeopixelRain.move()
RainMaySpawn(expired, num_drops) ==
    expired = "False" /\ num_drops < RAIN_MAX_DROPS

\* NeopixelRain.move(): the list it leaves, for the draws roll, pos, color, size
RainMoved(drops, expired, roll, pos, color, size) ==
    LET moved == [i \in 1 .. Len(drops) |-> DropMove(drops[i])]
        kept == SelectSeq(moved, DropStays)
    IN  IF RainMaySpawn(expired, Len(kept)) /\ roll < NEW_RAIN_DROP_PCT
        THEN Append(kept, RainDrop(pos, color, size))
        ELSE kept

\* NeopixelRain.is_finished(): not self._drops
RainFinished(drops) == drops = <<>>

----------------------------------------------------------------------------
(* Star and NeopixelStars.                                                 *)

\* Star.__init__
Star(pos, color, luma) ==
    [pos |-> pos, color |-> color, luma |-> luma, luma_delta |-> STAR_LUMA_DELTA]

\* Mutant: the direction turns only when luma is beyond a bound (< and > for
\* <= and >=)
twinkleTurnsBeyond(s) ==
    LET luma == PyMax(PyMin(s.luma + s.luma_delta, STAR_MAX_LUMA), STAR_MIN_LUMA)
    IN  IF luma < STAR_MIN_LUMA \/ luma > STAR_MAX_LUMA
        THEN [s EXCEPT !.luma = luma, !.luma_delta = 0 - @]
        ELSE [s EXCEPT !.luma = luma]

\* Star.twinkle()
twinkle(s) ==
    LET luma == PyMax(PyMin(s.luma + s.luma_delta, STAR_MAX_LUMA), STAR_MIN_LUMA)
    IN  IF luma <= STAR_MIN_LUMA \/ luma >= STAR_MAX_LUMA
        THEN [s EXCEPT !.luma = luma, !.luma_delta = 0 - @]
        ELSE [s EXCEPT !.luma = luma]

\* Star.pos_and_color(): the colour
StarColor(s) == color_at_luma(s.color, s.luma)

\* self._display[pos] = color, for the stars from the i-th on
RECURSIVE DrawStars(_, _, _)
DrawStars(buf, stars, i) ==
    IF i > Len(stars) THEN buf
    ELSE DrawStars([buf EXCEPT ![stars[i].pos] = StarColor(stars[i])], stars, i + 1)

\* NeopixelStars.render(): the buffer it leaves
StarsRendered(buf, stars) == DrawStars(clear(buf, 0), stars, 1)

\* NeopixelStars.move()
StarsMoved(stars) == [i \in 1 .. Len(stars) |-> twinkle(stars[i])]

----------------------------------------------------------------------------
(* The methods of the effects, as actions on the state of instance self.   *)

\* NeopixelStrip.reinit(): self._expired = False
StripReinit(expired, self) == [expired EXCEPT ![self] = "False"]

\* Mutant: set_expired() leaves the flag as it is
StripSetExpiredNoop(expired, self) == expired

\* NeopixelStrip.set_expired(): self._expired = True
StripSetExpired(expired, self) == [expired EXCEPT ![self] = "True"]

TrainsReinit ==
    /\ _expired' = StripReinit(_expired, "trains")
    /\ _trains' = <<>>
    /\ UNCHANGED <<_display, _drops, _stars, _offset, _width>>

StripesReinit ==
    \E w \in StripesWidths :
        LET filled == StripesFill(_display["stripes"], 0, w, 0)
        IN  /\ _expired' = StripReinit(_expired, "stripes")
            /\ _width' = w
            /\ _offset' = filled.offset
            /\ _display' = [_display EXCEPT !["stripes"] = filled.display]
            /\ UNCHANGED <<_trains, _drops, _stars>>

RainReinit ==
    /\ _expired' = StripReinit(_expired, "rain")
    /\ _drops' = <<>>
    /\ UNCHANGED <<_display, _trains, _stars, _offset, _width>>

\* NeopixelStars.reinit() does not call super().reinit()
StarsReinit ==
    \E p1 \in StarPositions, p2 \in StarPositions, c \in StarsColors,
       l1 \in StarLumas, l2 \in StarLumas :
        /\ _stars' = [i \in 1 .. _num_stars |->
                         IF i % 2 = 1 THEN Star(p1, c, l1) ELSE Star(p2, c, l2)]
        /\ UNCHANGED <<_expired, _display, _trains, _drops, _offset, _width>>

reinit(self) ==
    /\ \/ self = "trains" /\ TrainsReinit
       \/ self = "stripes" /\ StripesReinit
       \/ self = "rain" /\ RainReinit
       \/ self = "stars" /\ StarsReinit
    /\ initialised' = initialised \cup {self}
    /\ UNCHANGED sm

set_expired(self) ==
    /\ _expired' = StripSetExpired(_expired, self)
    /\ UNCHANGED <<_display, _trains, _drops, _stars, _offset, _width,
                   initialised, sm>>

\* Mutant: the inherited NeopixelStrip.is_finished(), not overridden
is_finishedOfStrip(self) == TRUE

is_finished(self) ==
    CASE self = "trains" -> TrainsFinished(_trains)
      [] self = "rain" -> RainFinished(_drops)
      [] OTHER -> TRUE

\* Mutant: the render() of the stripes instance scrolls the buffer
RenderedScrolls(self) ==
    CASE self = "trains" -> TrainsRendered(_display[self], _trains)
      [] self = "rain" -> RainRendered(_display[self], _drops)
      [] self = "stars" -> StarsRendered(_display[self], _stars)
      [] OTHER -> StripesMoved(_display[self], _offset, _width).display

\* render(): NeopixelStripes inherits the empty NeopixelStrip.render()
Rendered(self) ==
    CASE self = "trains" -> TrainsRendered(_display[self], _trains)
      [] self = "rain" -> RainRendered(_display[self], _drops)
      [] self = "stars" -> StarsRendered(_display[self], _stars)
      [] OTHER -> _display[self]

render(self) ==
    /\ _display' = [_display EXCEPT ![self] = Rendered(self)]
    /\ UNCHANGED <<_expired, _trains, _drops, _stars, _offset, _width,
                   initialised, sm>>

display(self) ==
    /\ sm' = Flushed(_display[self])
    /\ UNCHANGED <<_expired, _display, _trains, _drops, _stars, _offset, _width,
                   initialised>>

TrainsMove ==
    \E roll \in Rolls, width \in TrainWidths, rgb \in TrainsColors,
       speed \in TrainSpeeds :
        /\ _trains' = TrainsMoved(_trains, _expired["trains"], roll, width, rgb, speed)
        /\ UNCHANGED <<_display, _drops, _stars, _offset, _width>>

StripesMove ==
    LET moved == StripesMoved(_display["stripes"], _offset, _width)
    IN  /\ _display' = [_display EXCEPT !["stripes"] = moved.display]
        /\ _offset' = moved.offset
        /\ UNCHANGED <<_trains, _drops, _stars, _width>>

RainMove ==
    \E roll \in Rolls, pos \in DropPositions, color \in RainColors,
       size \in DropSizes :
        /\ _drops' = RainMoved(_drops, _expired["rain"], roll, pos, color, size)
        /\ UNCHANGED <<_display, _trains, _stars, _offset, _width>>

StarsMove ==
    /\ _stars' = StarsMoved(_stars)
    /\ UNCHANGED <<_display, _trains, _drops, _offset, _width>>

move(self) ==
    /\ \/ self = "trains" /\ TrainsMove
       \/ self = "stripes" /\ StripesMove
       \/ self = "rain" /\ RainMove
       \/ self = "stars" /\ StarsMove
    /\ UNCHANGED <<_expired, initialised, sm>>

----------------------------------------------------------------------------
(* NeopixelStrip.cycle(): render(); display(); move(); wait().             *)

CycleRender ==
    /\ pc = "render"
    /\ effect \in initialised
    /\ render(effect)
    /\ pc' = "display"
    /\ UNCHANGED <<subject, effects, effect, mainVars>>

CycleDisplay ==
    /\ pc = "display"
    /\ display(effect)
    /\ pc' = "move"
    /\ UNCHANGED <<subject, effects, effect, mainVars>>

CycleMove ==
    /\ pc = "move"
    /\ move(effect)
    /\ pc' = "wait"
    /\ UNCHANGED <<subject, effects, effect, mainVars>>

\* wait() sleeps and changes nothing; cycle() returns to its caller
CycleWait(caller) ==
    /\ pc = "wait"
    /\ pc' = caller
    /\ UNCHANGED <<effVars, subject, effects, effect, mainVars>>

----------------------------------------------------------------------------
(* A client that drives one instance through its interface in any order:   *)
(* reinit(), set_expired(), cycle().                                       *)

Init ==
    /\ _expired = [e \in AllEffects |-> "absent"]
    /\ _display = [e \in AllEffects |-> EmptyDisplay]
    /\ _trains = <<>>
    /\ _drops = <<>>
    /\ _stars = <<>>
    /\ _offset = 0
    /\ _width = 0
    /\ initialised = {}
    /\ sm = <<>>
    /\ effect \in AllEffects
    /\ effects = {effect}
    /\ pc = "render"
    /\ now = 0
    /\ expire_at = 0
    /\ last_remain = {}
    /\ led_expired = 0
    /\ calls = 0
    /\ subject = "none"

Reinit ==
    /\ pc = "render"
    /\ reinit(effect)
    /\ UNCHANGED <<subject, effects, effect, pc, mainVars>>

SetExpired ==
    /\ pc = "render"
    /\ set_expired(effect)
    /\ UNCHANGED <<subject, effects, effect, pc, mainVars>>

ClientWait == CycleWait("render")

Next ==
    \/ Reinit
    \/ SetExpired
    \/ CycleRender
    \/ CycleDisplay
    \/ CycleMove
    \/ ClientWait

Spec == Init /\ [][Next]_vars

----------------------------------------------------------------------------
(* The main loop (while True: ... while True: ...).  It runs with a list   *)
(* effects of one of the instances, whose rounds follow one another (the   *)
(* instances share no state); a whole cycle() is one step of it.           *)

\* cycle() of the trains instance: render(); display(); move(); wait()
TrainsCycle ==
    /\ _display' = [_display EXCEPT
                        !["trains"] = TrainsRendered(_display["trains"], _trains)]
    /\ sm' = Flushed(_display'["trains"])
    /\ \E roll \in Rolls, width \in TrainWidths, rgb \in TrainsColors,
          speed \in TrainSpeeds :
            _trains' = TrainsMoved(_trains, _expired["trains"],
                                   roll, width, rgb, speed)
    /\ UNCHANGED <<_expired, _drops, _stars, _offset, _width, initialised>>

\* cycle() of the stripes instance
StripesCycle ==
    LET moved == StripesMoved(_display["stripes"], _offset, _width)
    IN  /\ sm' = Flushed(_display["stripes"])
        /\ _display' = [_display EXCEPT !["stripes"] = moved.display]
        /\ _offset' = moved.offset
        /\ UNCHANGED <<_expired, _trains, _drops, _stars, _width, initialised>>

\* cycle() of the rain instance
RainCycle ==
    /\ _display' = [_display EXCEPT
                        !["rain"] = RainRendered(_display["rain"], _drops)]
    /\ sm' = Flushed(_display'["rain"])
    /\ \E roll \in Rolls, pos \in DropPositions, color \in RainColors,
          size \in DropSizes :
            _drops' = RainMoved(_drops, _expired["rain"], roll, pos, color, size)
    /\ UNCHANGED <<_expired, _trains, _stars, _offset, _width, initialised>>

\* Before the first round: no effect has been picked
MainInit ==
    /\ _expired = [e \in AllEffects |-> "absent"]
    /\ _display = [e \in AllEffects |-> EmptyDisplay]
    /\ _trains = <<>>
    /\ _drops = <<>>
    /\ _stars = <<>>
    /\ _offset = 0
    /\ _width = 0
    /\ initialised = {}
    /\ sm = <<>>
    /\ effects \in {{e} : e \in MainEffects}
    /\ effect = "none"
    /\ pc = "pick"
    /\ now = 0
    /\ expire_at = 0
    /\ last_remain = {}
    /\ led_expired = 0
    /\ calls = 0
    /\ subject = "none"

\* The top of the outer loop: led_expired.value(0); effect = choice(effects);
\* effect.reinit(); expire_at = time() + randint(MIN_TIME, MAX_TIME);
\* last_remain = None.  Only differences of time() are used, so the clock is
\* counted from here.
Pick ==
    /\ pc = "pick"
    /\ led_expired' = 0
    /\ \E e \in effects :
        /\ effect' = e
        /\ reinit(e)
    /\ now' = 0
    /\ \E effect_time \in EffectTimes : expire_at' = now' + effect_time
    /\ last_remain' = {}
    /\ calls' = 0
    /\ pc' = "check"
    /\ UNCHANGED <<subject, effects>>

\* remain = expire_at - time()
remain == expire_at - now

\* Mutant: the timer counts as elapsed at remain = 0
ElapsedAtZero(r) == r <= 0

\* if remain < 0: the effect has expired
Elapsed(r) == r < 0

\* Mutant: the warning starts MIN_TIME seconds before the end
ExpiringBelowMinTime(r) == r < MIN_TIME

\* elif remain < 5
Expiring(r) == r < WARN_TIME

\* (last_remain is None) or (remain < last_remain)
NewRemain(r) == last_remain = {} \/ \E last \in last_remain : r < last

\* led_expired.value(not remain % 2)
Blink(r) == IF r % 2 = 0 THEN 1 ELSE 0

\* One pass of the inner loop up to effect.cycle(): break, or mark the effect
\* expired, or blink, and go on to the cycle.  led_running.toggle() drives the
\* heartbeat pin only, which nothing reads, and is left out.
Check ==
    /\ pc = "check"
    /\ IF Elapsed(remain)
       THEN IF is_finished(effect)
            THEN /\ pc' = "pick"
                 /\ UNCHANGED <<effVars, last_remain, led_expired, calls>>
            ELSE /\ led_expired' = 1
                 /\ set_expired(effect)
                 /\ calls' = PyMin(calls + 1, CallsCap)
                 /\ pc' = "cycle"
                 /\ UNCHANGED last_remain
       ELSE IF Expiring(remain) /\ NewRemain(remain)
            THEN /\ led_expired' = Blink(remain)
                 /\ last_remain' = {remain}
                 /\ pc' = "cycle"
                 /\ UNCHANGED <<effVars, calls>>
            ELSE /\ pc' = "cycle"
                 /\ UNCHANGED <<effVars, last_remain, led_expired, calls>>
    /\ UNCHANGED <<subject, effects, effect, now, expire_at>>

\* effect.cycle()
Cycle ==
    /\ pc = "cycle"
    /\ \/ effect = "trains" /\ TrainsCycle
       \/ effect = "stripes" /\ StripesCycle
       \/ effect = "rain" /\ RainCycle
    /\ pc' = "check"
    /\ UNCHANGED <<subject, effects, effect, mainVars>>

\* The clock advances by a second.  time() is read only at the top of the two
\* loops, so the seconds that pass during a cycle are counted when cycle() has
\* returned; once the timer has elapsed the loop reads only the sign of remain,
\* and the clock is followed no further.
Tick ==
    /\ pc = "check"
    /\ ~ Elapsed(remain)
    /\ now' = now + 1
    /\ UNCHANGED <<effVars, subject, effects, effect, pc, expire_at, last_remain,
                   led_expired, calls>>

MainNext ==
    \/ Pick
    \/ Check
    \/ Cycle
    \/ Tick

MainSpec == MainInit /\ [][MainNext]_vars

\* The steps of the main loop by the position they leave: under MainNext a
\* step from "pick" is Pick, one that leaves "check" is Check, one from
\* "cycle" is Cycle, and each is enabled whenever the loop is at its position.
PickDone == pc = "pick" /\ pc' = "check"
CheckDone == pc = "check" /\ pc' \in {"pick", "cycle"}
CycleReturns == pc = "cycle" /\ pc' = "check"

\* The main loop when the processor keeps running it, every cycle() returns
\* and the clock keeps advancing: time passes during every cycle, so the
\* clock advances at some reading even though a reading is only taken between
\* two cycles.
MainFairSpec ==
    /\ MainInit
    /\ [][MainNext]_vars
    /\ WF_pc(PickDone)
    /\ WF_pc(CheckDone)
    /\ WF_pc(CycleReturns)
    /\ SF_vars(Tick)

----------------------------------------------------------------------------
(* The client with repeated cycle() calls: once set_expired() has been     *)
(* called reinit() is not, and every started cycle() runs on.              *)

DrainReinit == Reinit /\ _expired[effect] # "True"

DrainNext ==
    \/ DrainReinit
    \/ SetExpired
    \/ CycleRender
    \/ CycleDisplay
    \/ CycleMove
    \/ ClientWait

DrainSpec ==
    /\ Init
    /\ [][DrainNext]_vars
    /\ WF_vars(CycleRender)
    /\ WF_vars(CycleDisplay)
    /\ WF_vars(CycleMove)
    /\ WF_vars(ClientWait)

----------------------------------------------------------------------------
(* Specifications of one class or function on its own.  The state of the   *)
(* program proper is idle in them; subject holds the object exercised.     *)

Idle ==
    /\ _expired = [e \in AllEffects |-> "absent"]
    /\ _display = [e \in AllEffects |-> EmptyDisplay]
    /\ _trains = <<>>
    /\ _drops = <<>>
    /\ _stars = <<>>
    /\ _offset = 0
    /\ _width = 0
    /\ initialised = {}
    /\ sm = <<>>
    /\ effects = {}
    /\ effect = "none"
    /\ pc = "unit"
    /\ now = 0
    /\ expire_at = 0
    /\ last_remain = {}
    /\ led_expired = 0
    /\ calls = 0

\* Train.color_at(p) of a white train of every half-width up to MaxHalfwidth,
\* asked for the cell under the train's centre and then for the cells farther
\* and farther from it
IntensityInit ==
    /\ Idle
    /\ \E hw \in 1 .. MaxHalfwidth, speed \in TrainSpeeds :
          LET t == Train(WHITE, 2 * hw, speed)
          IN  subject = [train |-> t, p |-> IntOfHalf(t.pos)]

ColorAtFarther ==
    /\ ColorAtDistance(subject.train, subject.p) <= subject.train.halfwidth + 1
    /\ subject' = [subject EXCEPT !.p = @ + 1]
    /\ UNCHANGED progVars

IntensityNext ==
    \/ ColorAtFarther

IntensitySpec == IntensityInit /\ [][IntensityNext]_vars

\* The buffer indices the methods read or write, for an instance built with
\* any leds >= 1 and overscan >= 0.  strip holds what NeopixelStrip.__init__
\* computes: _min, _max and _len.
Strip(leds, overscan) ==
    [min |-> overscan, max |-> leds + overscan, len |-> leds + overscan * 2]

\* NeopixelStrip.clear(): self._display[pos] for pos in range(_min, _max + 1)
ClearAccess(strip) == range(strip.min, strip.max + 1)

\* NeopixelTrains.render() with train t on the strip
TrainsRenderAccess(strip, t) ==
    range(0, strip.len)
    \cup range(PyMax(FloorOfHalf(TrainMin(t)), 0),
               PyMin(CeilOfHalf(TrainMax(t)), strip.len - 1))

\* NeopixelRain.render() with drop d on the strip
RainRenderAccess(strip, d) ==
    range(0, strip.len)
    \cup {d.pos - offset : offset \in
            {o \in range(0, d.current_size - 1) : d.pos - o >= strip.min}}
    \cup {d.pos + offset : offset \in
            {o \in range(0, d.current_size - 1) : d.pos + o <= strip.max}}

\* NeopixelStars.render() with star s on the strip: self.clear(), then
\* self._display[pos] = color
StarsRenderAccess(strip, s) == ClearAccess(strip) \cup {s.pos}

\* NeopixelStripes.reinit(): self._display[led] for led in range(0, _len)
StripesReinitAccess(strip) == range(0, strip.len)

\* NeopixelStripes.move(): the slices select cells of the buffer only;
\* self._display[-1] is the cell _len - 1
StripesMoveAccess(strip) == {strip.len - 1}

IndexInit ==
    /\ Idle
    /\ \E leds \in 1 .. Leds, overscan \in 0 .. Overscan :
          subject = [strip |-> Strip(leds, overscan), method |-> "__init__",
                     object |-> "none", accessed |-> {}]

\* render() of a trains instance holding a train anywhere between its start
\* (pos = -width // 2) and its removal (min() > _max)
TrainsRenderAccesses ==
    /\ \E width \in TrainWidths, speed \in TrainSpeeds,
          pos \in (0 - TRAIN_WIDTH_MIN) .. 2 * (subject.strip.max + TRAIN_WIDTH_MIN) :
            LET t == [Train(WHITE, width, speed) EXCEPT !.pos = pos]
            IN  /\ pos >= Train(WHITE, width, speed).pos
                /\ TrainMin(t) <= 2 * subject.strip.max
                /\ subject' = [subject EXCEPT
                        !.method = "NeopixelTrains.render",
                        !.object = t,
                        !.accessed = TrainsRenderAccess(subject.strip, t)]
    /\ UNCHANGED progVars

\* render() of a rain instance holding a drop at any pos randint(_min, _max)
\* gives and of any size it grows through
RainRenderAccesses ==
    /\ \E pos \in subject.strip.min .. subject.strip.max, size \in DropSizes,
          current_size \in 0 .. RAIN_MAX_SIZE :
            LET d == [RainDrop(pos, CYAN, size) EXCEPT !.current_size = current_size]
            IN  /\ current_size <= size
                /\ subject' = [subject EXCEPT
                        !.method = "NeopixelRain.render",
                        !.object = d,
                        !.accessed = RainRenderAccess(subject.strip, d)]
    /\ UNCHANGED progVars

\* render() of a stars instance holding a star at any pos randint(_min, _max)
\* gives
StarsRenderAccesses ==
    /\ \E pos \in subject.strip.min .. subject.strip.max, luma \in StarLumas :
          LET star == Star(pos, CYAN, luma)
          IN  subject' = [subject EXCEPT
                  !.method = "NeopixelStars.render",
                  !.object = star,
                  !.accessed = StarsRenderAccess(subject.strip, star)]
    /\ UNCHANGED progVars

StripesReinitAccesses ==
    /\ subject' = [subject EXCEPT
            !.method = "NeopixelStripes.reinit",
            !.object = "none",
            !.accessed = StripesReinitAccess(subject.strip)]
    /\ UNCHANGED progVars

StripesMoveAccesses ==
    /\ subject' = [subject EXCEPT
            !.method = "NeopixelStripes.move",
            !.object = "none",
            !.accessed = StripesMoveAccess(subject.strip)]
    /\ UNCHANGED progVars

IndexNext ==
    \/ TrainsRenderAccesses
    \/ RainRenderAccesses
    \/ StarsRenderAccesses
    \/ StripesReinitAccesses
    \/ StripesMoveAccesses

IndexSpec == IndexInit /\ [][IndexNext]_vars

\* One RainDrop of any max_size from 1 to RAIN_MAX_SIZE, moved again and
\* again; subject.calls counts the move() calls, up to two past its lifetime.
DropInit ==
    /\ Idle
    /\ \E pos \in DropPositions, color \in RainColors,
          max_size \in 1 .. RAIN_MAX_SIZE :
            subject = [drop |-> RainDrop(pos, color, max_size), calls |-> 0]

DropMoves ==
    /\ subject.calls < 2 * subject.drop.max_size + 2
    /\ subject' = [drop |-> DropMove(subject.drop), calls |-> subject.calls + 1]
    /\ UNCHANGED progVars

DropNext ==
    \/ DropMoves

DropSpec == DropInit /\ [][DropNext]_vars

\* The frames the effects hand to display(): each effect renders the objects
\* it can hold at that moment into its buffer and flushes it.  subject holds
\* the effect and the frame put to the state machine; one frame is taken of
\* an instance.
FrameInit ==
    /\ Idle
    /\ subject = [effect |-> "none", frame |-> Flushed(EmptyDisplay)]

\* the positions of a train between its start and its removal, in half-LEDs
TrainPositions(width) ==
    {pos \in (0 - 2 * width) .. 2 * (_max + width) :
        /\ pos >= Train(WHITE, width, 1).pos
        /\ TrainStays([Train(WHITE, width, 1) EXCEPT !.pos = pos])}

\* a trains instance holding two trains, one having caught up with the other
TrainsFrame ==
    /\ subject.effect = "none"
    /\ \E width \in TrainWidths, rgb \in TrainsColors :
        \E pos1 \in TrainPositions(width), pos2 \in TrainPositions(width) :
            LET t1 == [Train(rgb, width, 1) EXCEPT !.pos = pos1]
                t2 == [Train(rgb, width, 4) EXCEPT !.pos = pos2]
            IN  /\ pos1 >= pos2
                /\ subject' = [effect |-> "trains",
                               frame |-> Flushed(TrainsRendered(EmptyDisplay, <<t1, t2>>))]
    /\ UNCHANGED progVars

\* a rain instance holding a drop at any pos and of any size it grows through
RainFrame ==
    /\ subject.effect = "none"
    /\ \E pos \in _min .. _max, color \in RainColors, size \in DropSizes,
          current_size \in 0 .. RAIN_MAX_SIZE :
            LET d == [RainDrop(pos, color, size) EXCEPT !.current_size = current_size]
            IN  /\ current_size <= size
                /\ subject' = [effect |-> "rain",
                               frame |-> Flushed(RainRendered(EmptyDisplay, <<d>>))]
    /\ UNCHANGED progVars

\* a stars instance holding a star at any pos and of any luma
StarsFrame ==
    /\ subject.effect = "none"
    /\ \E pos \in _min .. _max, color \in StarsColors,
          luma \in STAR_MIN_LUMA .. STAR_MAX_LUMA :
            subject' = [effect |-> "stars",
                        frame |-> Flushed(StarsRendered(EmptyDisplay,
                                                        <<Star(pos, color, luma)>>))]
    /\ UNCHANGED progVars

\* a stripes instance after reinit() and any number of moves
StripesFrame ==
    /\ subject.effect = "none"
    /\ \E width \in StripesWidths, moves \in 0 .. 2 * StripesWidth :
          LET filled == StripesFill(EmptyDisplay, 0, width, 0)
          IN  subject' = [effect |-> "stripes",
                          frame |-> Flushed(StripesMovedTimes(filled.display,
                                        filled.offset, width, moves).display)]
    /\ UNCHANGED progVars

FrameNext ==
    \/ TrainsFrame
    \/ RainFrame
    \/ StarsFrame
    \/ StripesFrame

FrameSpec == FrameInit /\ [][FrameNext]_vars

\* the three channels of a packed 0GRB colour
Channels(color) == {AndFF0000(color) \div 65536, AndFF00(color) \div 256, AndFF(color)}

\* A trains instance that holds one train of any width and speed and is
\* cycled until the train is removed; it is marked expired, so no other train
\* joins.  subject holds the list and the frame last put to the state machine.
TrainExitInit ==
    /\ Idle
    /\ \E width \in TRAIN_WIDTH_MIN .. TRAIN_WIDTH_MAX, rgb \in TrainsColors,
          speed \in TrainSpeeds :
            subject = [trains |-> <<Train(rgb, width, speed)>>,
                       frame |-> Flushed(EmptyDisplay)]

\* cycle(): render(); display(); move()
TrainExitCycle ==
    /\ Len(subject.trains) > 0
    /\ \E roll \in Rolls, width \in TrainWidths, rgb \in TrainsColors,
          speed \in TrainSpeeds :
            subject' = [trains |-> TrainsMoved(subject.trains, "True",
                                              roll, width, rgb, speed),
                        frame |-> Flushed(TrainsRendered(EmptyDisplay, subject.trains))]
    /\ UNCHANGED progVars

TrainExitNext ==
    \/ TrainExitCycle

TrainExitSpec == TrainExitInit /\ [][TrainExitNext]_vars

\* One star, created with any luma randint(STAR_MIN_LUMA, STAR_MAX_LUMA - 1)
\* can give, whose twinkle() is called frame after frame.
TwinkleInit ==
    /\ Idle
    /\ \E pos \in StarPositions, color \in StarsColors,
          luma \in STAR_MIN_LUMA .. (STAR_MAX_LUMA - 1) :
            subject = [star |-> Star(pos, color, luma)]

StarTwinkles ==
    /\ subject' = [star |-> twinkle(subject.star)]
    /\ UNCHANGED progVars

TwinkleNext ==
    \/ StarTwinkles

\* NeopixelStars.move() calls twinkle() in every frame
TwinkleSpec == TwinkleInit /\ [][TwinkleNext]_vars /\ WF_vars(StarTwinkles)

----------------------------------------------------------------------------
(* The claims.                                                             *)

\* the population of the instance being driven is empty
Drained == Len(_trains) = 0 /\ Len(_drops) = 0

\* C1: population cap.  In every reachable state the trains instance holds at
\* most max_trains trains and the rain instance at most RAIN_MAX_DROPS drops.
PopulationCap ==
    /\ Len(_trains) <= MaxTrains
    /\ Len(_drops) <= RAIN_MAX_DROPS

\* C1 witness: the rain instance is full while it may still spawn, and a move
\* has just run.
PopulationCapWitness ==
    /\ pc = "wait"
    /\ _expired["rain"] = "False"
    /\ Len(_drops) = RAIN_MAX_DROPS

\* C2: no spawn after expiry.  A move() of the trains or the rain instance made
\* while its expired flag is set (set_expired() called, no reinit() since)
\* never leaves more objects than it found.
NoSpawnAfterExpiry ==
    [][(pc = "move" /\ pc' = "wait" /\ effect \in {"trains", "rain"}
            /\ _expired[effect] = "True")
        => (Len(_trains') <= Len(_trains) /\ Len(_drops') <= Len(_drops))]_vars

\* C2 witness: a move has just run on an expired rain instance that still
\* holds a drop and is below its cap.
NoSpawnAfterExpiryWitness ==
    /\ pc = "wait"
    /\ effect = "rain"
    /\ _expired["rain"] = "True"
    /\ Len(_drops) > 0
    /\ Len(_drops) < RAIN_MAX_DROPS

\* C3: drain liveness.  is_finished() is true exactly when the population is
\* empty, and once set_expired() has been called repeated cycles (so repeated
\* move() calls), with no reinit(), lead to an empty population.
DrainLiveness ==
    /\ [](/\ is_finished("trains") <=> Len(_trains) = 0
          /\ is_finished("rain") <=> Len(_drops) = 0)
    /\ (effect \in {"trains", "rain"} /\ _expired[effect] = "True") ~> Drained

\* C3 witness: an expired trains instance still holds a train of speed 0.5,
\* which has only just entered the strip.
DrainLivenessWitness ==
    /\ _expired["trains"] = "True"
    /\ \E i \in 1 .. Len(_trains) : _trains[i].speed = 1 /\ _trains[i].pos < 0

\* C4: the scheduler never abandons an effect early.  Whenever the main loop is
\* back at the top of the outer loop after a round, the round's expire_at has
\* passed and the effect it ran holds no object.
NeverAbandonsEarly ==
    (pc = "pick" /\ effect # "none") => (now > expire_at /\ Drained)

\* C4 witness: a round of the trains instance has ended after the instance was
\* marked expired.
NeverAbandonsEarlyWitness ==
    /\ pc = "pick"
    /\ effect = "trains"
    /\ _expired["trains"] = "True"

\* C5 as the spec states it: a round that has ended made exactly one
\* set_expired() call.
SetExpiredExactlyOnce ==
    (pc = "pick" /\ effect # "none") => calls = 1

\* C5: set_expired() is called at every pass of the inner loop at which the
\* timer has elapsed (now > expire_at) and the effect is not finished, and at no
\* other pass; it leaves the flag true.  A round of the stripes instance, which
\* is always finished, makes no call.
SetExpiredAtEveryElapsedCheck ==
    /\ [][(pc = "check" /\ pc' # "check")
            => IF now > expire_at /\ ~ Drained
               THEN /\ _expired'[effect] = "True"
                    /\ calls' = PyMin(calls + 1, CallsCap)
               ELSE /\ _expired' = _expired
                    /\ calls' = calls]_vars
    /\ []((pc = "pick" /\ effect = "stripes") => calls = 0)

\* C5 witness: a round has ended after more than one set_expired() call.
SetExpiredAtEveryElapsedCheckWitness ==
    /\ pc = "pick"
    /\ effect \in {"trains", "rain"}
    /\ calls >= 2

\* C6 as the spec states it: no cycle() follows a pass of the inner loop at
\* which now >= expire_at and is_finished() both hold.
NoCycleAtExpireAt ==
    [][(pc = "check" /\ now >= expire_at /\ is_finished(effect))
        => pc' # "cycle"]_vars

\* C6: round exit boundary.  A pass of the inner loop leaves the loop exactly
\* when now > expire_at and is_finished() both hold, and runs a cycle()
\* otherwise, so also when now = expire_at.
RoundExitBoundary ==
    [][(pc = "check" /\ pc' # "check")
        => /\ pc' = "pick" <=> (now > expire_at /\ is_finished(effect))
           /\ pc' = "cycle" <=> ~ (now > expire_at /\ is_finished(effect))]_vars

\* C6 witness: a cycle() is about to run at now = expire_at on a finished
\* effect.
RoundExitBoundaryWitness ==
    /\ pc = "cycle"
    /\ now = expire_at
    /\ is_finished(effect)

\* C7 as the spec states it: immediately after reinit() the expired flag of
\* the instance is false.
ReinitClearsExpired ==
    [][Reinit => _expired'[effect] = "False"]_vars

\* C8: every display() hands the state machine exactly the cells
\* overscan .. overscan + leds - 1 of the buffer, in index order.
FlushesVisibleWindow ==
    [][(pc = "display" /\ pc' = "move")
        => sm' = [k \in 1 .. Leds |-> _display[effect][Overscan + k - 1]]]_vars

\* C8 witness: a display() has run while an overscan cell was lit and differed
\* from every visible cell.
FlushesVisibleWindowWitness ==
    /\ pc = "move"
    /\ Len(sm) = Leds
    /\ \E led \in range(0, _min) \cup range(_max, _len) :
          /\ _display[effect][led] # 0
          /\ \A k \in 1 .. Len(sm) : sm[k] # _display[effect][led]

\* C9: after reinit() from any state the trains and the rain instance hold no
\* object, the stars instance holds _num_stars stars, and every cell i of the
\* stripes buffer holds the scaled color1 when i mod (2 * width) < width and the
\* scaled color2 otherwise.
ReinitInitialState ==
    [][Reinit
        => /\ effect = "trains" => _trains' = <<>>
           /\ effect = "rain" => _drops' = <<>>
           /\ effect = "stars" => Len(_stars') = _num_stars
           /\ effect = "stripes" =>
                \A i \in range(0, _len) :
                    _display'["stripes"][i] =
                        IF i % (2 * _width') < _width'
                        THEN color_at_luma(StripesColor1, StripesBrightness)
                        ELSE color_at_luma(StripesColor2, StripesBrightness)]_vars

\* C9 witness: the stripes instance has been scrolled off its initial pattern,
\* from where the next reinit() starts.
ReinitInitialStateWitness ==
    /\ pc = "render"
    /\ effect = "stripes"
    /\ "stripes" \in initialised
    /\ _offset # _len % (2 * _width)

\* C10: render() is idempotent.  The buffer a second render() would leave is
\* the buffer the first one left, and render() changes neither the objects nor
\* the pattern state nor the expired flag.
RenderIdempotent ==
    [][(pc = "render" /\ pc' = "display")
        => /\ Rendered(effect)' = _display'[effect]
           /\ UNCHANGED <<_trains, _drops, _stars, _offset, _width, _expired>>]_vars

\* C10 witness: a render() of the rain instance has drawn a drop on the strip.
RenderIdempotentWitness ==
    /\ pc = "display"
    /\ effect = "rain"
    /\ Len(_drops) > 0
    /\ \E led \in range(_min, _max + 1) : _display["rain"][led] # 0

\* C11: stripes periodicity.  In every state of the stripes instance reached
\* after reinit(), 2 * width calls of move() lead back to the same _offset and
\* to the same buffer.
StripesPeriodicity ==
    (effect = "stripes" /\ "stripes" \in initialised)
        => StripesMovedTimes(_display["stripes"], _offset, _width, 2 * _width)
            = [display |-> _display["stripes"], offset |-> _offset]

\* C11 witness: the stripes instance has been scrolled by move() to a phase
\* at which the buffer starts with the second colour.
StripesPeriodicityWitness ==
    /\ effect = "stripes"
    /\ "stripes" \in initialised
    /\ pc = "wait"
    /\ _display["stripes"][0] = color_at_luma(StripesColor2, StripesBrightness)

\* C12 as the spec states it: the intensity color_at() uses does not increase
\* with the distance, and it is 0 exactly when the distance exceeds the
\* half-width.
IntensityZeroExactlyOutside ==
    /\ [](ColorAtIntensity(subject.train, subject.p) = 0
            <=> ColorAtDistance(subject.train, subject.p) > subject.train.halfwidth)
    /\ [][ColorAtIntensity(subject.train, subject.p)'
            <= ColorAtIntensity(subject.train, subject.p)]_vars

\* C12: linear-mover intensity law.  color_at() returns the train's colour
\* scaled to an intensity that does not increase with the distance d and that
\* is 0 exactly when d >= hw or 255 * (hw - d)^2 < hw^2: it is 0 on the edge
\* cell d = hw, and nonzero at every d < hw for the half-widths up to 15.
IntensityLaw ==
    /\ [](LET t == subject.train
              hw == subject.train.halfwidth
              d == ColorAtDistance(subject.train, subject.p)
              i == ColorAtIntensity(subject.train, subject.p)
          IN  /\ color_at(t, subject.p) = color_at_luma(t.rgb, i)
              /\ i \in 0 .. 255
              /\ i = 0 <=> (d >= hw \/ 255 * (hw - d) * (hw - d) < hw * hw)
              /\ (hw <= 15 /\ d < hw) => i > 0
              /\ d = 0 => i = 255)
    /\ [][ColorAtIntensity(subject.train, subject.p)'
            <= ColorAtIntensity(subject.train, subject.p)]_vars

\* C12 witness: color_at() has been asked for the edge cell, at distance
\* exactly the half-width, and returns BLACK.
IntensityLawWitness ==
    /\ pc = "unit"
    /\ ColorAtDistance(subject.train, subject.p) = subject.train.halfwidth
    /\ subject.train.halfwidth >= 4
    /\ color_at(subject.train, subject.p) = 0

\* C13 as the spec states it: for every leds >= 1 and overscan >= 0, every
\* buffer index a method reads or writes lies in 0 .. _len - 1.
NoOutOfBoundsAccess ==
    subject.accessed \subseteq range(0, subject.strip.len)

\* C14: scheduler progress.  With the clock advancing and every cycle()
\* returning, rounds end and begin again and again, and once a round's timer
\* has elapsed the main loop gets back to the top of the outer loop.
SchedulerProgress ==
    /\ []<>(pc = "pick")
    /\ []<>(pc = "check")
    /\ (pc = "check" /\ Elapsed(remain)) ~> (pc = "pick")

\* C14 witness: the timer has elapsed on a trains instance that still holds a
\* train and has been marked expired.
SchedulerProgressWitness ==
    /\ pc = "cycle"
    /\ effect = "trains"
    /\ now > expire_at
    /\ _expired["trains"] = "True"
    /\ Len(_trains) > 0

\* C15: raindrop lifecycle.  After n move() calls a drop of max_size M has
\* current_size n for n <= M, 2M - n for M <= n <= 2M and 0 from then on;
\* its target_size is M before the M-th call and 0 from that call on; and
\* finished() is false after fewer than 2M calls and true after 2M.
DropLifecycle ==
    LET d == subject.drop
        M == subject.drop.max_size
        n == subject.calls
    IN  /\ d.current_size =
               IF n <= M THEN n ELSE IF n <= 2 * M THEN 2 * M - n ELSE 0
        /\ d.current_size \in 0 .. M
        /\ d.target_size = IF n < M THEN M ELSE 0
        /\ DropFinished(d) <=> n >= 2 * M

\* C15 witness: a drop of the smallest size the program draws has just
\* finished, at its 2M-th move().
DropLifecycleWitness ==
    /\ pc = "unit"
    /\ subject.drop.max_size = RAIN_MIN_SIZE
    /\ subject.calls = 2 * RAIN_MIN_SIZE
    /\ DropFinished(subject.drop)

\* C16 as the spec states it: in every frame put to the state machine, every
\* channel of every cell is at most the brightness the effect was built with.
BrightnessCap ==
    subject.effect # "none" =>
        \A k \in DOMAIN subject.frame :
            \A channel \in Channels(subject.frame[k]) :
                channel <= _brightness(subject.effect)

\* C17: invisible exit of trains.  move() removes a train only when, moved,
\* its min() = pos - halfwidth exceeds _max, and the frame rendered and flushed
\* just before the removal is black in every visible cell.
InvisibleExit ==
    /\ [](subject.trains = <<>> => \A k \in DOMAIN subject.frame : subject.frame[k] = 0)
    /\ [][(subject.trains # <<>> /\ subject.trains' = <<>>)
            => TrainMin(TrainMove(subject.trains[1])) > 2 * _max]_vars
    /\ [][(subject.trains # <<>>
                /\ TrainMin(TrainMove(subject.trains[1])) > 2 * _max)
            => subject.trains' = <<>>]_vars

\* C17 witness: the train has been removed and its last frame is flushed.
InvisibleExitWitness ==
    /\ pc = "unit"
    /\ subject.trains = <<>>
    /\ Len(subject.frame) = Leds

\* the frame an instance flushes when its buffer was black before render()
FreshFrame(self) ==
    CASE self = "trains" -> Flushed(TrainsRendered(EmptyDisplay, _trains))
      [] self = "rain" -> Flushed(RainRendered(EmptyDisplay, _drops))
      [] self = "stars" -> Flushed(StarsRendered(EmptyDisplay, _stars))
      [] OTHER -> Flushed(StripesFill(EmptyDisplay, 0, _width, 0).display)

\* C18: no stale pixels across rounds.  reinit() of trains and rain empties
\* the population and reinit() of the stripes rewrites every cell of the
\* buffer; a render() that follows leaves the population and the stripes
\* buffer alone; so the frame display() flushes first after reinit() is the
\* one a black buffer would have given, whatever the buffer held, and it is
\* entirely black for trains and rain.
NoStalePixels ==
    /\ [][(Reinit /\ effect \in {"trains", "rain"})
            => (_trains' = <<>> /\ _drops' = <<>>)]_vars
    /\ [][(Reinit /\ effect = "stripes")
            => (_offset' = _len % (2 * _width')
                /\ Flushed(_display'[effect]) = FreshFrame(effect)')]_vars
    /\ [][CycleRender
            => (UNCHANGED <<_trains, _drops, _stars, _offset, _width>>
                /\ (effect = "stripes" => UNCHANGED _display))]_vars
    /\ [][(CycleDisplay /\ effect # "stripes") => sm' = FreshFrame(effect)]_vars
    /\ [][(CycleDisplay /\ effect \in {"trains", "rain"}
                /\ _trains = <<>> /\ _drops = <<>>)
            => \A k \in DOMAIN sm' : sm'[k] = 0]_vars

\* C18 witness: the frame of the round before, still held by the state
\* machine, is lit; reinit() has emptied the population, and the first
\* render() after it has left a black buffer for display() to flush.
NoStalePixelsWitness ==
    /\ pc = "display"
    /\ effect = "trains"
    /\ _expired[effect] = "False"
    /\ _trains = <<>>
    /\ \E k \in DOMAIN sm : sm[k] # 0
    /\ Flushed(_display[effect]) = [k \in 1 .. _leds |-> 0]

\* C19: expiry indicator states.  Whenever cycle() is about to run, led_expired
\* is off if at least WARN_TIME seconds remain, and on if the timer has elapsed
\* (the effect is then not finished); the step that starts a round turns it
\* off, and cycle() does not touch it.
ExpiryIndicator ==
    /\ []((pc = "cycle" /\ remain >= WARN_TIME) => led_expired = 0)
    /\ []((pc = "cycle" /\ remain < 0)
            => (led_expired = 1 /\ ~ is_finished(effect)))
    /\ [][(pc = "pick" /\ pc' # "pick") => led_expired' = 0]_vars
    /\ [][(pc = "cycle" /\ pc' # "cycle") => led_expired' = led_expired]_vars

\* C19 witness: the timer has elapsed, the effect still holds a train or a
\* drop, the indicator is on and cycle() runs next.
ExpiryIndicatorWitness ==
    /\ pc = "cycle"
    /\ remain < 0
    /\ ~ is_finished(effect)
    /\ led_expired = 1
    /\ _expired[effect] = "True"

\* C20: star twinkle is a bounded oscillator.  luma stays in
\* STAR_MIN_LUMA .. STAR_MAX_LUMA and luma_delta is STAR_LUMA_DELTA up or
\* down; a call reverses luma_delta exactly when the luma it leaves is at a
\* bound; and luma is at each bound again and again.
TwinkleOscillates ==
    /\ [](subject.star.luma \in STAR_MIN_LUMA .. STAR_MAX_LUMA)
    /\ [](PyAbs(subject.star.luma_delta) = STAR_LUMA_DELTA)
    /\ [][IF subject'.star.luma \in {STAR_MIN_LUMA, STAR_MAX_LUMA}
           THEN subject'.star.luma_delta = 0 - subject.star.luma_delta
           ELSE subject'.star.luma_delta = subject.star.luma_delta]_vars
    /\ []<>(subject.star.luma = STAR_MIN_LUMA)
    /\ []<>(subject.star.luma = STAR_MAX_LUMA)

\* C20 witness: the star has reached the upper bound and turned round.
TwinkleOscillatesWitness ==
    /\ pc = "unit"
    /\ subject.star.luma = STAR_MAX_LUMA
    /\ subject.star.luma_delta = 0 - STAR_LUMA_DELTA

====
